---- MODULE Spec2Model ----
(***************************************************************************)
(* A model of src/app.py: a Streamlit voice-note application that stores   *)
(* notes in one shared Qdrant collection.  Every browser session runs the  *)
(* script top to bottom on each interaction; the external services (OpenAI *)
(* embeddings, Qdrant) may fail on any call.  Several sessions run against *)
(* the same collection, each call on the store being one atomic step.      *)
(***************************************************************************)
EXTENDS Integers, Sequences, FiniteSets, TLC

\* ------------------------------------------------------------------ bounds
\* script runs started in one behaviour, over all sessions
MaxRuns == 2

\* ------------------------------------------------------- program constants
\* limit=10 of client.search and client.scroll
LIMIT == 10

Sessions == {"s1", "s2"}
\* API keys a user may paste; "bad" is rejected by client.models.list()
Keys == {"k1", "k2", "bad"}
\* the keys the user of session s holds: both may be the same person
KeysOf(s) == IF s = "s1" THEN {"k1", "bad"} ELSE Keys
\* texts are sequences of one-character strings
NoteTexts == {<<"a">>, <<"b">>}
\* what the search box may hold
QueryTexts == {<<>>, <<" ">>, <<" ", "b">>}
\* Python's None for an optional value: <<>> is None, <<x>> is the value x
None == <<>>
Some(x) == <<x>>

VARIABLES
    collExists,      \* the Qdrant collection "notes" exists
    indexExists,     \* the payload index on user_id exists
    points,          \* the collection: point id -> [vector, payload]
    pc,              \* per session: position of the current script run
    api_key_verified,\* st.session_state["api_key_verified"]
    user_id,         \* st.session_state["user_id"] ("" while absent)
    last_query,      \* st.session_state["last_query"]
    has_searched,    \* st.session_state["has_searched"]
    search_results,  \* st.session_state["search_results"]
    count,           \* local of add_note_to_db: the count it read
    note_text,       \* argument of add_note_to_db
    op,              \* the handler the current run executes
    err,             \* the call whose exception ended the run ("none")
    swallowed,       \* what the bare except of the current run caught
    wrote,           \* the current add_note_to_db call has upserted
    lastAdded,       \* text of the note this session's last add stored
    assigned,        \* id -> number of completed adds that assigned it
    runs,            \* script runs started so far
    assured,         \* some assure_db_collection_exists call has returned
    assure_done      \* assure_db_collection_exists has returned in this run

vars == <<collExists, indexExists, points, pc, api_key_verified, user_id,
          last_query, has_searched, search_results, count, note_text, op,
          err, swallowed, wrote, lastAdded, assigned, runs, assured, assure_done>>

store == <<collExists, indexExists, points>>
session == <<api_key_verified, user_id, last_query, has_searched, search_results>>
locals == <<count, note_text>>

\* ------------------------------------------------------------ pure helpers
\* hashlib.md5(api_key).hexdigest(): deterministic, distinct for distinct keys
Md5(k) == IF k = "k1" THEN "u1" ELSE IF k = "k2" THEN "u2" ELSE "u0"

\* client.models.list() succeeds only for a valid key
KeyValid(k) == k # "bad"

IsSpace(c) == c = " "

RECURSIVE LStrip(_)
LStrip(t) == IF t # <<>> /\ IsSpace(Head(t)) THEN LStrip(Tail(t)) ELSE t

RECURSIVE RStrip(_)
RStrip(t) ==
    IF t # <<>> /\ IsSpace(t[Len(t)]) THEN RStrip(SubSeq(t, 1, Len(t) - 1)) ELSE t

\* str.strip()
Strip(t) == RStrip(LStrip(t))

\* truth value of a Python str
Truthy(t) == Len(t) > 0

RECURSIVE CountChar(_, _)
CountChar(t, c) ==
    IF t = <<>> THEN 0
    ELSE (IF Head(t) = c THEN 1 ELSE 0) + CountChar(Tail(t), c)

\* the embedding service: text -> vector (two dimensions stand for 3072)
get_embeddings(text) == <<CountChar(text, "a"), CountChar(text, "b")>>

\* the store's similarity of two vectors
Similarity(v, w) == v[1] * w[1] + v[2] * w[2]

\* PointStruct(id, vector, payload) as add_note_to_db builds it
PointStruct(text, user) ==
    [vector |-> get_embeddings(text), payload |-> [text |-> text, user_id |-> user]]

\* client.count(exact=True).count
Count(P) == Cardinality(DOMAIN P)

\* client.upsert: insert or replace, keyed by id
Upsert(P, id, pt) == [i \in (DOMAIN P) \cup {id} |-> IF i = id THEN pt ELSE P[i]]

\* ids of the points the filter user_id == user lets through
NoFilter(P, user) == DOMAIN P
Matching(P, user) == {i \in DOMAIN P : P[i].payload.user_id = user}

Min(a, b) == IF a < b THEN a ELSE b

\* the ids of S in ascending order
InIdOrder(S) ==
    IF S = {} THEN <<>>
    ELSE LET last == CHOOSE i \in S : \A j \in S : j <= i
             member(i) == i \in S
         IN SelectSeq([i \in 1..last |-> i], member)

\* ids by descending score sc[id], equal scores in the order of `ids`
RECURSIVE InScoreOrder(_, _)
InScoreOrder(sc, ids) ==
    IF ids = <<>> THEN <<>>
    ELSE LET x == ids[Len(ids)]
             sorted == InScoreOrder(sc, SubSeq(ids, 1, Len(ids) - 1))
             p == Cardinality({k \in 1..Len(sorted) : sc[sorted[k]] >= sc[x]})
         IN SubSeq(sorted, 1, p) \o <<x>> \o SubSeq(sorted, p + 1, Len(sorted))

Take(seq, n) == SubSeq(seq, 1, Min(n, Len(seq)))

\* client.scroll(scroll_filter, limit)[0]: records without a score, in id order
Scroll(P, user, limit) ==
    LET ids == Take(InIdOrder(Matching(P, user)), limit)
    IN [k \in 1..Len(ids) |-> [id |-> ids[k], payload |-> P[ids[k]].payload]]

\* client.search(query_vector, query_filter, limit): scored points, best first
UnsortedSearch(P, v, user, limit) ==
    LET ids == Take(InIdOrder(Matching(P, user)), limit)
    IN [k \in 1..Len(ids) |->
          [id |-> ids[k], payload |-> P[ids[k]].payload,
           score |-> Similarity(v, P[ids[k]].vector)]]
Search(P, v, user, limit) ==
    LET S == Matching(P, user)
        sc == [i \in S |-> Similarity(v, P[i].vector)]
        ids == Take(InScoreOrder(sc, InIdOrder(S)), limit)
    IN [k \in 1..Len(ids) |-> [id |-> ids[k], payload |-> P[ids[k]].payload, score |-> sc[ids[k]]]]

\* the test "if query and query.strip()"
QueryMode(q) == q # None /\ Truthy(q[1]) /\ Truthy(Strip(q[1]))

\* the list `notes` of list_notes_from_db
Notes(P, user, q) ==
    IF QueryMode(q) THEN Search(P, get_embeddings(q[1]), user, LIMIT)
    ELSE Scroll(P, user, LIMIT)

\* getattr(n, "score", None)
ScoreAsZero(n) == IF "score" \in DOMAIN n /\ n.score # 0 THEN Some(n.score) ELSE None
GetScore(n) == IF "score" \in DOMAIN n THEN Some(n.score) ELSE None

\* list_notes_from_db(query) in a session of `user`
list_notes_from_db(P, user, q) ==
    LET notes == Notes(P, user, q)
    IN [k \in 1..Len(notes) |-> [text |-> notes[k].payload.text, score |-> GetScore(notes[k])]]

\* a collection left by earlier runs: LIMIT notes of user u1, ids 1..LIMIT
Preload == [i \in 1..LIMIT |-> PointStruct(<<"a">>, "u1")]

\* ------------------------------------------------------------------- Init
Init ==
    /\ \/ collExists = FALSE /\ indexExists = FALSE /\ points = <<>>
       \/ collExists = TRUE /\ indexExists = TRUE /\ points = Preload
    /\ assigned = [i \in DOMAIN points |-> 1]
    /\ pc = [s \in Sessions |-> "gate"]
    /\ api_key_verified = [s \in Sessions |-> FALSE]
    /\ user_id = [s \in Sessions |-> ""]
    /\ last_query = [s \in Sessions |-> <<>>]
    /\ has_searched = [s \in Sessions |-> FALSE]
    /\ search_results = [s \in Sessions |-> <<>>]
    /\ count = [s \in Sessions |-> 0]
    /\ note_text = [s \in Sessions |-> <<>>]
    /\ op = [s \in Sessions |-> "none"]
    /\ err = [s \in Sessions |-> "none"]
    /\ swallowed = [s \in Sessions |-> "none"]
    /\ wrote = [s \in Sessions |-> FALSE]
    /\ lastAdded = [s \in Sessions |-> None]
    /\ runs = 0
    /\ assured = FALSE
    /\ assure_done = [s \in Sessions |-> FALSE]

\* ---------------------------------------------------------------- actions
\* the run of session s ends with the exception of call `what`
Raise(s, what) ==
    /\ pc' = [pc EXCEPT ![s] = "raised"]
    /\ err' = [err EXCEPT ![s] = what]

\* get_api_key_securely: the user pastes key k; a verified key sets user_id
\* and reruns, a rejected one shows the error and stops the script
get_api_key_securely(s, k) ==
    /\ pc[s] = "gate"
    /\ ~api_key_verified[s]
    /\ IF KeyValid(k)
       THEN /\ runs < MaxRuns
            /\ runs' = runs + 1
            /\ user_id' = [user_id EXCEPT ![s] = Md5(k)]
            /\ api_key_verified' = [api_key_verified EXCEPT ![s] = TRUE]
            /\ pc' = [pc EXCEPT ![s] = "run"]
       ELSE UNCHANGED <<user_id, api_key_verified, pc, runs>>
    /\ UNCHANGED <<store, last_query, has_searched, search_results, locals, op,
                   err, swallowed, wrote, lastAdded, assigned, assured, assure_done>>

\* line 69 with the test inverted: "if client.collection_exists(...)"
AssureCheckInverted(s) ==
    /\ pc[s] = "run"
    /\ api_key_verified[s]
    /\ \E ok \in BOOLEAN :
         IF ok
         THEN /\ pc' = [pc EXCEPT ![s] = IF collExists THEN "create" ELSE "index"]
              /\ UNCHANGED err
         ELSE Raise(s, "collection_exists")
    /\ UNCHANGED <<store, session, locals, op, swallowed, wrote, lastAdded,
                   assigned, runs, assured, assure_done>>

\* assure_db_collection_exists, line 69: client.collection_exists
AssureCheck(s) ==
    /\ pc[s] = "run"
    /\ api_key_verified[s]
    /\ \E ok \in BOOLEAN :
         IF ok
         THEN /\ pc' = [pc EXCEPT ![s] = IF collExists THEN "index" ELSE "create"]
              /\ UNCHANGED err
         ELSE Raise(s, "collection_exists")
    /\ UNCHANGED <<store, session, locals, op, swallowed, wrote, lastAdded,
                   assigned, runs, assured, assure_done>>

\* assure_db_collection_exists, lines 70-73: client.create_collection, which
\* the store rejects when the collection is already there
AssureCreate(s) ==
    /\ pc[s] = "create"
    /\ \E ok \in BOOLEAN :
         IF ~ok THEN Raise(s, "create_collection") /\ UNCHANGED collExists
         ELSE IF collExists THEN Raise(s, "conflict") /\ UNCHANGED collExists
         ELSE /\ collExists' = TRUE
              /\ pc' = [pc EXCEPT ![s] = "index"]
              /\ UNCHANGED err
    /\ UNCHANGED <<indexExists, points, session, locals, op, swallowed, wrote,
                   lastAdded, assigned, runs, assured, assure_done>>

\* what the except clause of lines 80-81 lets through: nothing
Propagates(outcome) == FALSE

\* assure_db_collection_exists, lines 74-81: client.create_payload_index inside
\* try/except; then lines 130-141, which leave an initialised session as it is
AssureIndex(s) ==
    /\ pc[s] = "index"
    /\ \E outcome \in {"ok", "already_exists", "error"} :
         /\ outcome = "already_exists" => indexExists
         /\ indexExists' = (indexExists \/ outcome = "ok")
         /\ IF outcome # "ok" /\ Propagates(outcome)
            THEN /\ Raise(s, "create_payload_index")
                 /\ UNCHANGED <<swallowed, assured, assure_done>>
            ELSE /\ pc' = [pc EXCEPT ![s] = "ready"]
                 /\ swallowed' = [swallowed EXCEPT ![s] = IF outcome = "ok" THEN "none" ELSE outcome]
                 /\ assured' = TRUE
                 /\ assure_done' = [assure_done EXCEPT ![s] = TRUE]
                 /\ UNCHANGED err
    /\ UNCHANGED <<collExists, points, session, locals, op, wrote, lastAdded,
                   assigned, runs>>

\* the run renders both tabs and no button was pressed
Idle(s) ==
    /\ pc[s] = "ready"
    /\ pc' = [pc EXCEPT ![s] = "done"]
    /\ swallowed' = [swallowed EXCEPT ![s] = "none"]
    /\ UNCHANGED <<store, session, locals, op, err, wrote, lastAdded, assigned,
                   runs, assured, assure_done>>

\* add_note_to_db has returned: the toast is shown and the run ends
AddCompleted(s) ==
    /\ assigned' = [i \in (DOMAIN assigned) \cup {count[s] + 1} |->
                      IF i = count[s] + 1
                      THEN (IF i \in DOMAIN assigned THEN assigned[i] + 1 ELSE 1)
                      ELSE assigned[i]]
    /\ lastAdded' = [lastAdded EXCEPT ![s] = Some(note_text[s])]

\* "Zapisz notatkę" pressed with note_text t: add_note_to_db, line 94
AddCount(s, t) ==
    /\ pc[s] = "ready"
    /\ op' = [op EXCEPT ![s] = "add"]
    /\ note_text' = [note_text EXCEPT ![s] = t]
    /\ swallowed' = [swallowed EXCEPT ![s] = "none"]
    /\ lastAdded' = [lastAdded EXCEPT ![s] = None]
    /\ \E ok \in BOOLEAN :
         IF ok
         THEN /\ count' = [count EXCEPT ![s] = Count(points)]
              /\ pc' = [pc EXCEPT ![s] = "upsert"]
              /\ UNCHANGED err
         ELSE Raise(s, "count") /\ UNCHANGED count
    /\ UNCHANGED <<store, session, wrote, assigned, runs, assured, assure_done>>

\* the id add_note_to_db gives the new point
NextId(P, n) == n + 1

\* lines 95-102 with the point written before its embedding is computed
AddUpsertEager(s) ==
    /\ pc[s] = "upsert"
    /\ \E outcome \in {"ok", "get_embeddings", "upsert"} :
         /\ IF outcome = "upsert"
            THEN UNCHANGED <<points, wrote>>
            ELSE /\ points' = Upsert(points, NextId(points, count[s]),
                                     PointStruct(note_text[s], user_id[s]))
                 /\ wrote' = [wrote EXCEPT ![s] = TRUE]
         /\ IF outcome = "ok"
            THEN /\ UNCHANGED err
                 /\ IF has_searched[s]
                    THEN /\ pc' = [pc EXCEPT ![s] = "refresh"]
                         /\ UNCHANGED <<assigned, lastAdded>>
                    ELSE /\ pc' = [pc EXCEPT ![s] = "done"]
                         /\ AddCompleted(s)
            ELSE /\ Raise(s, outcome)
                 /\ UNCHANGED <<assigned, lastAdded>>
    /\ UNCHANGED <<collExists, indexExists, session, locals, op, swallowed,
                   runs, assured, assure_done>>

\* add_note_to_db, lines 95-102: get_embeddings, then client.upsert
AddUpsert(s) ==
    /\ pc[s] = "upsert"
    /\ \E outcome \in {"ok", "get_embeddings", "upsert"} :
         IF outcome = "ok"
         THEN /\ points' = Upsert(points, NextId(points, count[s]),
                                  PointStruct(note_text[s], user_id[s]))
              /\ wrote' = [wrote EXCEPT ![s] = TRUE]
              /\ UNCHANGED err
              /\ IF has_searched[s]
                 THEN /\ pc' = [pc EXCEPT ![s] = "refresh"]
                      /\ UNCHANGED <<assigned, lastAdded>>
                 ELSE /\ pc' = [pc EXCEPT ![s] = "done"]
                      /\ AddCompleted(s)
         ELSE /\ Raise(s, outcome)
              /\ UNCHANGED <<points, wrote, assigned, lastAdded>>
    /\ UNCHANGED <<collExists, indexExists, session, locals, op, swallowed,
                   runs, assured, assure_done>>

\* the calls of list_notes_from_db(q) that can raise: get_embeddings only in
\* query mode, then the one call on the store
ListOutcomes(q) ==
    IF QueryMode(Some(q)) THEN {"ok", "get_embeddings", "search"} ELSE {"ok", "scroll"}

\* the value line 104 assigns to search_results
StaleRefresh(s) == search_results[s]
Refreshed(s) == list_notes_from_db(points, user_id[s], Some(last_query[s]))

\* lines 103-104 with the remembered query cleared by the refresh
AddRefreshClearsQuery(s) ==
    /\ pc[s] = "refresh"
    /\ last_query' = [last_query EXCEPT ![s] = <<>>]
    /\ \E outcome \in ListOutcomes(last_query[s]) :
         IF outcome = "ok"
         THEN /\ search_results' = [search_results EXCEPT ![s] = Refreshed(s)]
              /\ pc' = [pc EXCEPT ![s] = "done"]
              /\ AddCompleted(s)
              /\ UNCHANGED err
         ELSE /\ Raise(s, outcome)
              /\ UNCHANGED <<search_results, assigned, lastAdded>>
    /\ UNCHANGED <<store, api_key_verified, user_id, has_searched,
                   locals, op, swallowed, wrote, runs, assured, assure_done>>

\* add_note_to_db, lines 103-104: the refresh of an open result view
AddRefresh(s) ==
    /\ pc[s] = "refresh"
    /\ \E outcome \in ListOutcomes(last_query[s]) :
         IF outcome = "ok"
         THEN /\ search_results' = [search_results EXCEPT ![s] = Refreshed(s)]
              /\ pc' = [pc EXCEPT ![s] = "done"]
              /\ AddCompleted(s)
              /\ UNCHANGED err
         ELSE /\ Raise(s, outcome)
              /\ UNCHANGED <<search_results, assigned, lastAdded>>
    /\ UNCHANGED <<store, api_key_verified, user_id, last_query, has_searched,
                   locals, op, swallowed, wrote, runs, assured, assure_done>>

\* "Szukaj" pressed with q in the box: lines 171-175
SearchClick(s, q) ==
    /\ pc[s] = "ready"
    /\ op' = [op EXCEPT ![s] = "search"]
    /\ swallowed' = [swallowed EXCEPT ![s] = "none"]
    /\ last_query' = [last_query EXCEPT ![s] = q]
    /\ \E outcome \in ListOutcomes(q) :
         IF outcome = "ok"
         THEN /\ search_results' = [search_results EXCEPT ![s] =
                                      list_notes_from_db(points, user_id[s], Some(q))]
              /\ has_searched' = [has_searched EXCEPT ![s] = TRUE]
              /\ pc' = [pc EXCEPT ![s] = "done"]
              /\ UNCHANGED err
         ELSE /\ Raise(s, outcome)
              /\ UNCHANGED <<search_results, has_searched>>
    /\ UNCHANGED <<store, api_key_verified, user_id, locals, wrote, lastAdded,
                   assigned, runs, assured, assure_done>>

\* the next interaction (or st.rerun) starts the script again from the top
NewRun(s) ==
    /\ pc[s] \in {"done", "raised"}
    /\ runs < MaxRuns
    /\ runs' = runs + 1
    /\ pc' = [pc EXCEPT ![s] = "run"]
    /\ op' = [op EXCEPT ![s] = "none"]
    /\ err' = [err EXCEPT ![s] = "none"]
    /\ count' = [count EXCEPT ![s] = 0]
    /\ note_text' = [note_text EXCEPT ![s] = <<>>]
    /\ wrote' = [wrote EXCEPT ![s] = FALSE]
    /\ lastAdded' = [lastAdded EXCEPT ![s] = IF op[s] = "add" /\ pc[s] = "done" THEN lastAdded[s] ELSE None]
    /\ assure_done' = [assure_done EXCEPT ![s] = FALSE]
    /\ UNCHANGED <<store, session, swallowed, assigned, assured>>

Next ==
    \E s \in Sessions :
        \/ \E k \in KeysOf(s) : get_api_key_securely(s, k)
        \/ AssureCheck(s)
        \/ AssureCreate(s)
        \/ AssureIndex(s)
        \/ Idle(s)
        \/ \E t \in NoteTexts : AddCount(s, t)
        \/ AddUpsert(s)
        \/ AddRefresh(s)
        \/ \E q \in QueryTexts : SearchClick(s, q)
        \/ NewRun(s)

Spec == Init /\ [][Next]_vars

\* no other session is between the count and the end of an add_note_to_db call
NoAddInProgress(s) == \A o \in Sessions \ {s} : pc[o] \notin {"upsert", "refresh"}

\* the sessions take turns at writing: add_note_to_db calls never overlap
NextSerial ==
    \E s \in Sessions :
        \/ \E k \in KeysOf(s) : get_api_key_securely(s, k)
        \/ AssureCheck(s)
        \/ AssureCreate(s)
        \/ AssureIndex(s)
        \/ Idle(s)
        \/ \E t \in NoteTexts : NoAddInProgress(s) /\ AddCount(s, t)
        \/ AddUpsert(s)
        \/ AddRefresh(s)
        \/ \E q \in QueryTexts : SearchClick(s, q)
        \/ NewRun(s)

\* a cold start on an empty store, then one writer at a time
InitEmpty == Init /\ points = <<>>
SpecSerial == InitEmpty /\ [][NextSerial]_vars

\* ----------------------------------------------------------------- claims
\* queries list_notes_from_db may be given, None included
BlankQueries == {None, Some(<<>>), Some(<<" ">>)}
NonBlankQueries == {Some(<<"a">>), Some(<<" ", "b">>)}
AllQueries == BlankQueries \cup NonBlankQueries

\* C1: no two add_note_to_db calls that complete successfully assign the
\* same point id.
C1_UniqueIds == \A i \in DOMAIN assigned : assigned[i] <= 1

\* C2: whatever the query, every entry list_notes_from_db returns in a
\* session comes from a stored point whose payload user_id is that session's
\* user_id, never from another user's point.
C2_UserIsolation ==
    \A s \in Sessions : api_key_verified[s] =>
        \A q \in AllQueries :
            \A n \in {Notes(points, user_id[s], q)} :
            \A r \in {list_notes_from_db(points, user_id[s], q)} :
               /\ Len(r) = Len(n)
               /\ \A k \in 1..Len(n) :
                    /\ n[k].id \in DOMAIN points
                    /\ points[n[k].id].payload.user_id = user_id[s]
                    /\ r[k].text = points[n[k].id].payload.text

\* C2 witness: a session of user u2 has just listed a non-empty result while
\* the collection also holds notes of user u1.
C2_Witness ==
    \E s \in Sessions :
        /\ pc[s] = "done" /\ op[s] = "search" /\ user_id[s] = "u2"
        /\ Len(search_results[s]) > 0
        /\ \E i \in DOMAIN points : points[i].payload.user_id = "u1"

\* C3: a stored note is never overwritten or removed: every point of the
\* collection is still there, with the same text and user_id, after any step.
C3_NotesImmutable ==
    [][\A i \in DOMAIN points :
          i \in DOMAIN points' /\ points'[i].payload = points[i].payload]_vars

\* C4: a browse-mode list_notes_from_db that follows a successful
\* add_note_to_db(t) in the same session returns an entry with text t.
C4_AddThenBrowse ==
    \A s \in Sessions :
        (/\ pc[s] = "done" /\ op[s] = "search"
         /\ lastAdded[s] # None
         /\ last_query[s] \in {<<>>, <<" ">>})
        => \E k \in 1..Len(search_results[s]) :
              search_results[s][k].text = lastAdded[s][1]

\* C5: when add_note_to_db raises, the call has changed nothing: it has not
\* upserted.
C5_AllOrNothing ==
    \A s \in Sessions : (pc[s] = "raised" /\ op[s] = "add") => ~wrote[s]

\* C6: the only failure of create_payload_index that
\* assure_db_collection_exists swallows is "index already exists".
C6_SwallowsOnlyAlreadyExists ==
    \A s \in Sessions : swallowed[s] \in {"none", "already_exists"}

\* C7: once a call of assure_db_collection_exists has returned, no call
\* (of any session) calls create_collection or is rejected by it.
C7_SecondCallNoOp ==
    assured => \A s \in Sessions :
        /\ pc[s] # "create"
        /\ ~(pc[s] = "raised" /\ err[s] = "conflict")

\* C8: with a non-blank query list_notes_from_db returns at most 10 entries,
\* in non-increasing order of score, each from a distinct note of the calling
\* user; with more than 10 such notes it returns exactly 10.
C8_QueryModeTopTen ==
    \A s \in Sessions : api_key_verified[s] =>
        \A mine \in {{i \in DOMAIN points : points[i].payload.user_id = user_id[s]}} :
        \A q \in NonBlankQueries :
            \A n \in {Notes(points, user_id[s], q)} :
            \A r \in {list_notes_from_db(points, user_id[s], q)} :
               /\ Len(r) <= 10
               /\ Len(r) = Len(n)
               /\ \A k \in 1..Len(r) : r[k].score # None /\ n[k].id \in mine
               /\ \A k \in 1..(Len(r) - 1) : r[k].score[1] >= r[k + 1].score[1]
               /\ Cardinality({n[k].id : k \in 1..Len(n)}) = Len(n)
               /\ Cardinality(mine) > 10 => Len(r) = 10
               /\ Cardinality(mine) <= 10 => Len(r) = Cardinality(mine)

\* C8 witness: a session whose user has more than 10 notes has just run a
\* non-blank search and holds 10 results with two different scores.
C8_Witness ==
    \E s \in Sessions :
        /\ pc[s] = "done" /\ op[s] = "search" /\ last_query[s] = <<" ", "b">>
        /\ Cardinality({i \in DOMAIN points : points[i].payload.user_id = user_id[s]}) > 10
        /\ Len(search_results[s]) = 10
        /\ search_results[s][1].score = Some(1)
        /\ search_results[s][10].score = Some(0)

\* C9: a None, empty or whitespace-only query takes browse mode: no embedding
\* call is made and every entry has score None; a non-blank query gives every
\* entry the store's score of its note, a score of 0 included.
C9_ScorePresence ==
    \A s \in Sessions :
        /\ (op[s] = "search" /\ pc[s] = "raised" /\ err[s] = "get_embeddings")
              => last_query[s] \notin {<<>>, <<" ">>}
        /\ api_key_verified[s] =>
             /\ \A q \in BlankQueries :
                  \A r \in {list_notes_from_db(points, user_id[s], q)} :
                     \A k \in 1..Len(r) : r[k].score = None
             /\ \A q \in NonBlankQueries :
                  \A n \in {Notes(points, user_id[s], q)} :
                  \A r \in {list_notes_from_db(points, user_id[s], q)} :
                     \A k \in 1..Len(r) :
                        r[k].score =
                          Some(Similarity(get_embeddings(q[1]), points[n[k].id].vector))

\* C9 witness: a non-blank search has returned an entry with score 0, and
\* the same session would get a scoreless entry in browse mode.
C9_Witness ==
    \E s \in Sessions :
        /\ pc[s] = "done" /\ op[s] = "search" /\ last_query[s] = <<" ", "b">>
        /\ \E k \in 1..Len(search_results[s]) : search_results[s][k].score = Some(0)
        /\ Len(list_notes_from_db(points, user_id[s], None)) > 0

RECURSIVE SumOver(_, _)
SumOver(f, S) ==
    IF S = {} THEN 0
    ELSE LET i == CHOOSE j \in S : TRUE IN f[i] + SumOver(f, S \ {i})
SuccessfulAdds == SumOver(assigned, DOMAIN assigned)

\* C11: with one writer at a time, from an empty collection, whenever no add
\* is in progress the collection holds exactly the ids 1..n, n being the
\* number of successful adds; if all n <= 10 notes are of one user, that
\* user's browse-mode list has exactly n entries, none with a score.
C11_CountEqualsAdds ==
    (\A s \in Sessions : pc[s] \notin {"upsert", "refresh"}) =>
        /\ DOMAIN points = 1..SuccessfulAdds
        /\ \A s \in Sessions :
              (/\ api_key_verified[s]
               /\ SuccessfulAdds <= 10
               /\ \A i \in DOMAIN points : points[i].payload.user_id = user_id[s])
              => \A r \in {list_notes_from_db(points, user_id[s], None)} :
                    /\ Len(r) = SuccessfulAdds
                    /\ \A k \in 1..Len(r) : r[k].score = None

\* the users of the model
Users == {"u1", "u2"}

\* C12: no upsert of an add_note_to_db call made in a session of user B
\* changes what list_notes_from_db returns in browse mode to another user A.
C12_WriteIsolation ==
    [][\A s \in Sessions : (pc[s] = "upsert" /\ wrote'[s]) =>
          \A a \in Users \ {user_id[s]} :
              list_notes_from_db(points', a, None) = list_notes_from_db(points, a, None)]_vars

\* C13: a failing embedding call inside add_note_to_db ends the run with the
\* exception, with no upsert made and the collection unchanged; a failing
\* embedding or store call inside list_notes_from_db ends the run with the
\* exception and the collection unchanged.
C13_FailuresPropagate ==
    [][\A s \in Sessions :
          /\ (pc[s] = "upsert" /\ err'[s] = "get_embeddings")
                => pc'[s] = "raised" /\ points' = points /\ ~wrote'[s]
          /\ (pc[s] \in {"ready", "refresh"}
                /\ err'[s] \in {"get_embeddings", "search", "scroll"})
                => pc'[s] = "raised" /\ points' = points]_vars

\* C13 witness: an add_note_to_db call has raised from its embedding call
\* after reading the count of a non-empty collection, and wrote nothing.
C13_Witness ==
    \E s \in Sessions :
        /\ pc[s] = "raised" /\ op[s] = "add" /\ err[s] = "get_embeddings"
        /\ ~wrote[s]
        /\ count[s] = Cardinality(DOMAIN points) /\ count[s] > 0

\* the step is a count, upsert, search or scroll call of session s
StoreCall(s) ==
    \/ pc[s] = "ready" /\ op'[s] \in {"add", "search"}
    \/ pc[s] \in {"upsert", "refresh"} /\ pc'[s] # pc[s]

\* C14: count, upsert, search and scroll are called only after
\* assure_db_collection_exists has returned in the same run, in a session
\* with api_key_verified true and a user_id, and on an existing collection;
\* a collection that exists is never dropped.
C14_StoreCallsGuarded ==
    [][/\ collExists => collExists'
       /\ \A s \in Sessions : StoreCall(s) =>
             /\ assure_done[s]
             /\ api_key_verified[s]
             /\ user_id[s] \in Users
             /\ collExists]_vars

\* C14 witness: an add has upserted the first point of a collection that
\* did not exist at the start, and is about to refresh the results.
C14_Witness ==
    \E s \in Sessions :
        /\ pc[s] = "refresh" /\ wrote[s] /\ assure_done[s]
        /\ Cardinality(DOMAIN points) = 1

\* C15: in every step the search context of a session stays consistent:
\* without has_searched the results are empty, and with it the results are
\* those list_notes_from_db gave for the current last_query.
C15_SearchContextConsistent ==
    [][\A s \in Sessions :
          /\ ~has_searched'[s] => search_results'[s] = <<>>
          /\ has_searched'[s] =>
                \/ /\ has_searched[s]
                   /\ last_query'[s] = last_query[s]
                   /\ search_results'[s] = search_results[s]
                \/ search_results'[s] =
                     list_notes_from_db(points', user_id'[s], Some(last_query'[s]))]_vars

\* C16: no step of add_note_to_db changes last_query, has_searched or
\* user_id; a step of list_notes_from_db changes neither the collection nor
\* the session's identity; the collection changes only in the upsert of
\* add_note_to_db, and last_query and has_searched only in the search handler.
C16_Frame ==
    [][/\ \A s \in Sessions :
            /\ (pc[s] \in {"ready", "upsert", "refresh"} /\ op'[s] = "add")
                  => /\ last_query'[s] = last_query[s]
                     /\ has_searched'[s] = has_searched[s]
                     /\ user_id'[s] = user_id[s]
            /\ (last_query'[s] # last_query[s] \/ has_searched'[s] # has_searched[s])
                  => pc[s] = "ready" /\ op'[s] = "search"
            /\ ((pc[s] = "refresh" \/ (pc[s] = "ready" /\ op'[s] = "search"))
                    /\ pc'[s] # pc[s])
                  => /\ points' = points
                     /\ user_id'[s] = user_id[s]
                     /\ api_key_verified'[s] = api_key_verified[s]
       /\ points' # points =>
             \E s \in Sessions :
                 /\ pc[s] = "upsert" /\ ~wrote[s] /\ wrote'[s]
                 /\ points' = Upsert(points, count[s] + 1, points'[count[s] + 1])]_vars

\* C16 witness: an add has completed, refresh included, in a session whose
\* remembered query is non-empty.
C16_Witness ==
    \E s \in Sessions :
        /\ pc[s] = "done" /\ op[s] = "add" /\ wrote[s]
        /\ has_searched[s] /\ last_query[s] = <<" ", "b">>

====
